---- MODULE Spec2Model ----
(***************************************************************************)
(* Model of compare.py: the batch driver main(), compare(), the text       *)
(* normaliser prepare_text(), levenshtein_distance() and the Spinner it    *)
(* drives.                                                                 *)
(*                                                                         *)
(* Texts are sequences of one-character strings.  Scores (Python floats    *)
(* rounded to 3 decimals) are integers counting thousandths: 1.0 is 1000,  *)
(* the sentinel -1.0 is -1000.                                             *)
(***************************************************************************)
EXTENDS Integers, Sequences, FiniteSets, TLC

VARIABLES
    \* ---- main() / compare() ----
    pc,          \* position in main()/compare()
    lines,       \* file.readlines() of the input file, each line as its token list
    idx,         \* 1-based index of the line the for loop is at (0 before the loop)
    results,     \* the list `results`
    file1,       \* compare()'s argument file1
    file2,       \* compare()'s argument file2
    text1,       \* compare()'s local text1
    text2,       \* compare()'s local text2
    openFiles,   \* pair files whose handle is currently open
    exc,         \* the exception in flight ("none" when there is none)
    distance,    \* main()'s local `distance`
    outOpens,    \* how many times the output file was opened for writing
    output,      \* lines of the output file (<<>> while untouched)
    openedFor,   \* indices of the input lines for which open() of a pair file was called
    \* ---- levenshtein_distance() and its Spinner ----
    lpc,         \* position in levenshtein_distance()
    la,          \* argument s1 as passed
    lb,          \* argument s2 as passed
    s1,          \* local s1 (after the swap)
    s2,          \* local s2 (after the swap)
    i2,          \* number of outer iterations completed
    distances,   \* the rolling row `distances`
    result,      \* the value returned
    spinner,     \* the Spinner object's fields
    stdout,      \* what the Spinner wrote to sys.stdout, in order
    \* ---- prepare_text() ----
    ppc,         \* position of the normalisation run
    ptext,       \* the text given to prepare_text
    pfirst,      \* outcome of prepare_text(ptext)
    psecond      \* outcome of prepare_text applied to pfirst's text

mainVars == <<pc, lines, idx, results, file1, file2, text1, text2, openFiles,
              exc, distance, outOpens, output, openedFor>>
levVars  == <<lpc, la, lb, s1, s2, i2, distances, result, spinner, stdout>>
prepVars == <<ppc, ptext, pfirst, psecond>>
vars     == <<mainVars, levVars, prepVars>>

-----------------------------------------------------------------------------
(* Bounds of the model *)

MaxTextLen == 5
MaxStrLen == 3
MaxLines == 2
MaxTokens == 3

-----------------------------------------------------------------------------
(* Characters and plain string helpers *)

SQ == "'"
DQ == "\""
SP == " "
NL == "\n"
TAB == "\t"
EQ == "="

Max(a, b) == IF a >= b THEN a ELSE b
Min(a, b) == IF a <= b THEN a ELSE b

\* All sequences over alphabet of length at most n.
SeqsUpTo(alphabet, n) == UNION {[1..k -> alphabet] : k \in 0..n}

\* Does pat occur in t at position i ?
OccursAt(t, pat, i) ==
    /\ i + Len(pat) - 1 <= Len(t)
    /\ SubSeq(t, i, i + Len(pat) - 1) = pat

\* str.find(pat, i): first position >= i where pat occurs in t, 0 if none.
RECURSIVE Find(_, _, _)
Find(t, pat, i) ==
    IF i + Len(pat) - 1 > Len(t) THEN 0
    ELSE IF OccursAt(t, pat, i) THEN i
    ELSE Find(t, pat, i + 1)

\* str.replace(old, new): every non-overlapping occurrence, left to right.
RECURSIVE ReplaceFrom(_, _, _, _)
ReplaceFrom(t, old, new, i) ==
    IF i > Len(t) THEN <<>>
    ELSE IF OccursAt(t, old, i) THEN new \o ReplaceFrom(t, old, new, i + Len(old))
    ELSE <<t[i]>> \o ReplaceFrom(t, old, new, i + 1)

Replace(t, old, new) == ReplaceFrom(t, old, new, 1)

\* str.lower() on the model's alphabet.
LowerChar(c) == IF c = "A" THEN "a" ELSE c
Lower(t) == [i \in 1..Len(t) |-> LowerChar(t[i])]

-----------------------------------------------------------------------------
(* ast.parse / ast.unparse on the fragment of Python that texts over       *)
(* TextAlphabet can spell: a module is a list of one-line statements       *)
(*     (NAME "=")* atom ("==" atom)*      atom ::= NAME | STRING+          *)
(* with names over a/A and string literals in ', ", ''' or """.            *)

TextAlphabet == {"a", "A", SQ, DQ, SP, NL, EQ}

IsLetter(c) == c \in {"a", "A"}
IsQuote(c) == c \in {SQ, DQ}

Tok(k, v) == [k |-> k, v |-> v]
LexError == [ok |-> FALSE, toks |-> <<>>]

\* First position >= i of t that holds no letter (Len(t)+1 if none).
RECURSIVE NameEnd(_, _)
NameEnd(t, i) == IF i <= Len(t) /\ IsLetter(t[i]) THEN NameEnd(t, i + 1) ELSE i

\* First position >= i of t that holds q or a newline (0 if none).
RECURSIVE QuoteEnd(_, _, _)
QuoteEnd(t, q, i) ==
    IF i > Len(t) THEN 0
    ELSE IF t[i] = q \/ t[i] = NL THEN i
    ELSE QuoteEnd(t, q, i + 1)

\* The tokenizer: NAME, STR, EQ, EQEQ and NL tokens, or a SyntaxError
\* (unexpected indent, unterminated string, name glued to a string).
RECURSIVE Lex(_, _, _)
Lex(t, i, toks) ==
    IF i > Len(t) THEN [ok |-> TRUE, toks |-> toks]
    ELSE LET c == t[i]
             lineStart == toks = <<>> \/ toks[Len(toks)].k = "NL"
             atCol0 == i = 1 \/ t[i - 1] = NL
         IN
         IF c = NL THEN Lex(t, i + 1, Append(toks, Tok("NL", <<>>)))
         ELSE IF c = SP THEN Lex(t, i + 1, toks)
         ELSE IF lineStart /\ ~atCol0 THEN LexError
         ELSE IF IsLetter(c) THEN
             LET j == NameEnd(t, i) IN
             IF j <= Len(t) /\ IsQuote(t[j]) THEN LexError
             ELSE Lex(t, j, Append(toks, Tok("NAME", SubSeq(t, i, j - 1))))
         ELSE IF c = EQ THEN
             IF i < Len(t) /\ t[i + 1] = EQ
             THEN Lex(t, i + 2, Append(toks, Tok("EQEQ", <<>>)))
             ELSE Lex(t, i + 1, Append(toks, Tok("EQ", <<>>)))
         ELSE IF IsQuote(c) THEN
             IF OccursAt(t, <<c, c, c>>, i) THEN
                 LET k == Find(t, <<c, c, c>>, i + 3) IN
                 IF k = 0 THEN LexError
                 ELSE Lex(t, k + 3, Append(toks, Tok("STR", SubSeq(t, i + 3, k - 1))))
             ELSE
                 LET k == QuoteEnd(t, c, i + 1) IN
                 IF k = 0 \/ t[k] = NL THEN LexError
                 ELSE Lex(t, k + 1, Append(toks, Tok("STR", SubSeq(t, i + 1, k - 1))))
         ELSE LexError

\* The token list cut into logical lines at the NL tokens.
RECURSIVE SplitAtNL(_, _, _)
SplitAtNL(toks, i, cur) ==
    IF i > Len(toks) THEN <<cur>>
    ELSE IF toks[i].k = "NL" THEN <<cur>> \o SplitAtNL(toks, i + 1, <<>>)
    ELSE SplitAtNL(toks, i + 1, Append(cur, toks[i]))

\* Number of leading `NAME =` pairs of a logical line: the assignment targets.
RECURSIVE NumTargets(_, _)
NumTargets(ln, i) ==
    IF i + 1 <= Len(ln) /\ ln[i].k = "NAME" /\ ln[i + 1].k = "EQ"
    THEN 1 + NumTargets(ln, i + 2)
    ELSE 0

StmtError == [ok |-> FALSE, targets |-> <<>>, atoms |-> <<>>]

\* atom ("==" atom)* from position i; adjacent string literals concatenate.
\* prev is the kind of the token just consumed ("" at the start).
RECURSIVE ParseExpr(_, _, _, _)
ParseExpr(ln, i, atoms, prev) ==
    IF i > Len(ln) THEN
        IF prev \in {"NAME", "STR"} THEN [ok |-> TRUE, atoms |-> atoms]
        ELSE [ok |-> FALSE, atoms |-> <<>>]
    ELSE LET tk == ln[i] IN
         IF prev \in {"", "EQEQ"} THEN
             IF tk.k \in {"NAME", "STR"}
             THEN ParseExpr(ln, i + 1, Append(atoms, tk), tk.k)
             ELSE [ok |-> FALSE, atoms |-> <<>>]
         ELSE IF tk.k = "EQEQ" THEN ParseExpr(ln, i + 1, atoms, "EQEQ")
         ELSE IF tk.k = "STR" /\ prev = "STR" THEN
             ParseExpr(ln, i + 1,
                       [atoms EXCEPT ![Len(atoms)] =
                           Tok("STR", atoms[Len(atoms)].v \o tk.v)],
                       "STR")
         ELSE [ok |-> FALSE, atoms |-> <<>>]

ParseStmt(ln) ==
    LET n == NumTargets(ln, 1)
        e == ParseExpr(ln, 2 * n + 1, <<>>, "")
    IN IF e.ok
       THEN [ok |-> TRUE,
             targets |-> [k \in 1..n |-> ln[2 * k - 1].v],
             atoms |-> e.atoms]
       ELSE StmtError

RECURSIVE ParseLines(_, _)
ParseLines(lns, i) ==
    IF i > Len(lns) THEN [ok |-> TRUE, body |-> <<>>]
    ELSE IF lns[i] = <<>> THEN ParseLines(lns, i + 1)
    ELSE LET s == ParseStmt(lns[i])
             rest == ParseLines(lns, i + 1)
         IN IF s.ok /\ rest.ok
            THEN [ok |-> TRUE, body |-> <<s>> \o rest.body]
            ELSE [ok |-> FALSE, body |-> <<>>]

\* ast.parse(text): the module body, or ok = FALSE for a SyntaxError.
AstParse(text) ==
    LET l == Lex(text, 1, <<>>) IN
    IF l.ok THEN ParseLines(SplitAtNL(l.toks, 1, <<>>), 1)
    ELSE [ok |-> FALSE, body |-> <<>>]

\* isinstance(node, ast.Expr) and isinstance(node.value, ast.Constant)
IsExprConstant(stmt) ==
    /\ stmt.targets = <<>>
    /\ Len(stmt.atoms) = 1
    /\ stmt.atoms[1].k = "STR"

\* The loop over ast.walk(tree): every bare string statement gets value ''.
MaskDocstrings(body) ==
    [k \in 1..Len(body) |->
        IF IsExprConstant(body[k])
        THEN [body[k] EXCEPT !.atoms = <<Tok("STR", <<>>)>>]
        ELSE body[k]]

Contains(t, c) == \E i \in 1..Len(t) : t[i] = c

\* repr() of a str: double quotes only when the value holds ' and no ".
Repr(v) ==
    IF Contains(v, SQ) /\ ~Contains(v, DQ)
    THEN <<DQ>> \o v \o <<DQ>>
    ELSE <<SQ>> \o Replace(v, <<SQ>>, <<"\\", SQ>>) \o <<SQ>>

UnparseAtom(a) == IF a.k = "NAME" THEN a.v ELSE Repr(a.v)

RECURSIVE UnparseTargets(_, _)
UnparseTargets(targets, i) ==
    IF i > Len(targets) THEN <<>>
    ELSE targets[i] \o <<SP, EQ, SP>> \o UnparseTargets(targets, i + 1)

RECURSIVE UnparseCompare(_, _)
UnparseCompare(atoms, i) ==
    IF i > Len(atoms) THEN <<>>
    ELSE (IF i > 1 THEN <<SP, EQ, EQ, SP>> ELSE <<>>)
         \o UnparseAtom(atoms[i]) \o UnparseCompare(atoms, i + 1)

\* One statement of ast.unparse; the module's first statement, when it is
\* a bare string, is written as a docstring in triple double-quotes.
UnparseStmt(stmt, first) ==
    IF first /\ IsExprConstant(stmt)
    THEN <<DQ, DQ, DQ>> \o stmt.atoms[1].v \o <<DQ, DQ, DQ>>
    ELSE UnparseTargets(stmt.targets, 1) \o UnparseCompare(stmt.atoms, 1)

RECURSIVE AstUnparseFrom(_, _)
AstUnparseFrom(body, i) ==
    IF i > Len(body) THEN <<>>
    ELSE (IF i > 1 THEN <<NL>> ELSE <<>>)
         \o UnparseStmt(body[i], i = 1) \o AstUnparseFrom(body, i + 1)

AstUnparse(body) == AstUnparseFrom(body, 1)

-----------------------------------------------------------------------------
(* prepare_text *)

\* The six canonicalisation steps, in the order of the code.
Canonicalize(t) ==
    LET t1 == Replace(t, <<DQ, DQ, DQ>>, <<>>)
        t2 == Replace(t1, <<NL>>, <<SP>>)
        t3 == Replace(t2, <<TAB>>, <<>>)
        t4 == Replace(t3, <<SP, SP>>, <<>>)
        t5 == Replace(t4, <<SQ>>, <<DQ>>)
    IN Lower(t5)

\* prepare_text(text): ok = FALSE when ast.parse raises SyntaxError.
prepare_text(text) ==
    LET tree == AstParse(text) IN
    IF tree.ok
    THEN [ok |-> TRUE, text |-> Canonicalize(AstUnparse(MaskDocstrings(tree.body)))]
    ELSE [ok |-> FALSE, text |-> <<>>]

-----------------------------------------------------------------------------
(* Spinner *)

BS == "\\b"
Glyphs == <<"|", "/", "-", "\\">>
DigitChars == <<"0", "1", "2", "3", "4", "5", "6", "7", "8", "9">>

\* Decimal digits of a natural number.
RECURSIVE DigitsOf(_)
DigitsOf(n) ==
    IF n < 10 THEN <<DigitChars[n + 1]>>
    ELSE DigitsOf(n \div 10) \o <<DigitChars[(n % 10) + 1]>>

\* num/den (den > 0) rounded to the nearest integer, ties to even: what
\* f'{x:.0f}' and round() do.  \div rounds down and % is never negative, so
\* this is right for a negative num as well.
RoundHalfEven(num, den) ==
    LET q == num \div den
        r == num % den
    IN IF 2 * r < den THEN q
       ELSE IF 2 * r > den THEN q + 1
       ELSE IF q % 2 = 0 THEN q ELSE q + 1

Backspaces(n) == [k \in 1..n |-> BS]

\* Spinner.__init__(overall_count)
SpinnerNew(overall_count) ==
    [overall_count |-> overall_count, counter |-> 0, prev_length |-> 0, cursor |-> 0]

\* Mutant of TickPrevLength: the length of the last redraw is not recorded.
TickPrevLengthStale(sp, new_spinner) == sp.prev_length

\* The value tick() stores in self._prev_length after writing new_spinner.
TickPrevLength(sp, new_spinner) == Len(new_spinner)

\* Spinner.tick(); due says whether delay seconds have passed since the last
\* redraw.  ok = FALSE is the ZeroDivisionError of counter / overall_count.
SpinnerTick(sp, due) ==
    LET counted == [sp EXCEPT !.counter = sp.counter + 1] IN
    IF ~due THEN [ok |-> TRUE, sp |-> counted, written |-> <<>>]
    ELSE IF sp.overall_count = 0
    THEN [ok |-> FALSE, sp |-> counted, written |-> <<Backspaces(sp.prev_length)>>]
    ELSE LET progress == RoundHalfEven(counted.counter * 100, sp.overall_count)
             new_spinner == <<Glyphs[sp.cursor + 1], SP>> \o DigitsOf(progress) \o <<"%">>
         IN [ok |-> TRUE,
             sp |-> [counted EXCEPT !.cursor = (sp.cursor + 1) % 4,
                                    !.prev_length = TickPrevLength(sp, new_spinner)],
             written |-> <<Backspaces(sp.prev_length), new_spinner>>]

\* Spinner.finish(): what it writes.
SpinnerFinish(sp) == <<Backspaces(sp.prev_length)>>

-----------------------------------------------------------------------------
(* levenshtein_distance *)

LevAlphabet == {"a", "b", "c"}
Kitten == <<"k", "i", "t", "t", "e", "n">>
Sitting == <<"s", "i", "t", "t", "i", "n", "g">>
LevInputs == SeqsUpTo(LevAlphabet, MaxStrLen) \cup {Kitten, Sitting}

Min3(a, b, c) == Min(a, Min(b, c))

\* Mutants of RowCell: the insertion case forgotten; a substitution costing 2.
RowCellNoLeft(c1, c2, diag, up, left) ==
    IF c1 = c2 THEN diag ELSE 1 + Min(diag, up)

RowCellSubstitutionTwo(c1, c2, diag, up, left) ==
    IF c1 = c2 THEN diag ELSE Min3(diag + 2, up + 1, left + 1)

\* One cell of the new row: diag is distances[i1], up is distances[i1 + 1],
\* left is distances_[-1].
RowCell(c1, c2, diag, up, left) ==
    IF c1 = c2 THEN diag ELSE 1 + Min3(diag, up, left)

\* The inner loop: row holds distances_ after i1 cells.
RECURSIVE InnerLoop(_, _, _, _, _)
InnerLoop(dist, short, c2, i1, row) ==
    IF i1 >= Len(short) THEN row
    ELSE InnerLoop(dist, short, c2, i1 + 1,
                   Append(row, RowCell(short[i1 + 1], c2, dist[i1 + 1], dist[i1 + 2],
                                       row[Len(row)])))

\* One outer iteration: the row distances_ built for character c2 at index n.
NewRow(dist, short, c2, n) == InnerLoop(dist, short, c2, 0, <<n + 1>>)

\* The swap that makes s1 the shorter string.
Shorter(x, y) == IF Len(x) > Len(y) THEN y ELSE x
Longer(x, y) == IF Len(x) > Len(y) THEN x ELSE y

\* range(len(s1) + 1)
FirstRow(short) == [k \in 1..(Len(short) + 1) |-> k - 1]

RECURSIVE OuterLoop(_, _, _, _)
OuterLoop(dist, short, long, n) ==
    IF n >= Len(long) THEN dist
    ELSE OuterLoop(NewRow(dist, short, long[n + 1], n), short, long, n + 1)

\* The value levenshtein_distance(x, y) returns.
levenshtein_distance(x, y) ==
    LET short == Shorter(x, y)
        long == Longer(x, y)
        last == OuterLoop(FirstRow(short), short, long, 0)
    IN last[Len(last)]

LevInit ==
    /\ lpc = "call"
    /\ la \in LevInputs
    /\ lb \in LevInputs
    /\ s1 = <<>>
    /\ s2 = <<>>
    /\ i2 = 0
    /\ distances = <<>>
    /\ result = -1
    /\ spinner = SpinnerNew(0)
    /\ stdout = <<>>

LevIdle ==
    /\ lpc = "idle"
    /\ la = <<>>
    /\ lb = <<>>
    /\ s1 = <<>>
    /\ s2 = <<>>
    /\ i2 = 0
    /\ distances = <<>>
    /\ result = -1
    /\ spinner = SpinnerNew(0)
    /\ stdout = <<>>

\* Entry: the swap, the first row, the Spinner.
LevStart ==
    /\ UNCHANGED <<mainVars, prepVars>>
    /\ lpc = "call"
    /\ s1' = Shorter(la, lb)
    /\ s2' = Longer(la, lb)
    /\ distances' = FirstRow(s1')
    /\ spinner' = SpinnerNew(Len(s2'))
    /\ lpc' = "loop"
    /\ UNCHANGED <<la, lb, i2, result, stdout>>

\* One iteration of `for i2, c2 in enumerate(s2)`, spinner.tick() included.
LevOuter ==
    /\ UNCHANGED <<mainVars, prepVars>>
    /\ lpc = "loop"
    /\ i2 < Len(s2)
    /\ \E due \in BOOLEAN :
        LET t == SpinnerTick(spinner, due) IN
        /\ distances' = NewRow(distances, s1, s2[i2 + 1], i2)
        /\ spinner' = t.sp
        /\ stdout' = stdout \o t.written
        /\ lpc' = IF t.ok THEN "loop" ELSE "error"
    /\ i2' = i2 + 1
    /\ UNCHANGED <<la, lb, s1, s2, result>>

\* After the loop: spinner.finish() and the return.
LevFinish ==
    /\ UNCHANGED <<mainVars, prepVars>>
    /\ lpc = "loop"
    /\ i2 = Len(s2)
    /\ stdout' = stdout \o SpinnerFinish(spinner)
    /\ result' = distances[Len(distances)]
    /\ lpc' = "done"
    /\ UNCHANGED <<la, lb, s1, s2, i2, distances, spinner>>

LevNext == LevStart \/ LevOuter \/ LevFinish

-----------------------------------------------------------------------------
(* prepare_text applied once, then to its own output *)

NoOutcome == [ok |-> FALSE, text |-> <<>>]

PrepInit ==
    /\ ppc = "start"
    /\ ptext \in SeqsUpTo(TextAlphabet, MaxTextLen)
    /\ pfirst = NoOutcome
    /\ psecond = NoOutcome

PrepIdle ==
    /\ ppc = "idle"
    /\ ptext = <<>>
    /\ pfirst = NoOutcome
    /\ psecond = NoOutcome

PrepareFirst ==
    /\ UNCHANGED <<mainVars, levVars>>
    /\ ppc = "start"
    /\ pfirst' = prepare_text(ptext)
    /\ ppc' = IF pfirst'.ok THEN "once" ELSE "rejected"
    /\ UNCHANGED <<ptext, psecond>>

PrepareSecond ==
    /\ UNCHANGED <<mainVars, levVars>>
    /\ ppc = "once"
    /\ psecond' = prepare_text(pfirst.text)
    /\ ppc' = "twice"
    /\ UNCHANGED <<ptext, pfirst>>

PrepNext == PrepareFirst \/ PrepareSecond

-----------------------------------------------------------------------------
(* compare() and main() *)

\* The pair files a run can name.  kind: "text" (readable UTF-8 text),
\* "missing" (open raises FileNotFoundError), "dir" (open raises
\* IsADirectoryError), "binary" (read raises UnicodeDecodeError).
FileSystem ==
    [name \in {"a.py", "doc.py", "bad.py", "gone.py", "dir", "bin.py"} |->
        CASE name = "a.py"    -> [kind |-> "text", content |-> <<"A", EQ, SQ, "a", SQ>>]
          [] name = "doc.py"  -> [kind |-> "text", content |-> <<SQ, "a", SQ>>]
          [] name = "bad.py"  -> [kind |-> "text", content |-> <<"a", SP, "a">>]
          [] name = "gone.py" -> [kind |-> "missing", content |-> <<>>]
          [] name = "dir"     -> [kind |-> "dir", content |-> <<>>]
          [] name = "bin.py"  -> [kind |-> "binary", content |-> <<>>]]

FileNames == DOMAIN FileSystem

\* The input lines a run can read, each as line.split(): two tokens, or a
\* malformed line of 0, 1, 3, ... MaxTokens tokens.
PairLines == {<<f, g>> : f \in FileNames, g \in FileNames}
MalformedLines == {[k \in 1..n |-> "a.py"] : n \in (0..MaxTokens) \ {2}}
Batches == SeqsUpTo(PairLines \cup MalformedLines, MaxLines)

Sentinel == -1000

\* Python's exception classes: the bases of each class raised here.
Bases(e) ==
    CASE e = "UnicodeDecodeError" -> {"UnicodeDecodeError", "ValueError"}
      [] e = "FileNotFoundError"  -> {"FileNotFoundError", "OSError"}
      [] e = "IsADirectoryError"  -> {"IsADirectoryError", "OSError"}
      [] OTHER                    -> {e}

\* The two except clauses of main().
Handled(e) == "ValueError" \in Bases(e) \/ "FileNotFoundError" \in Bases(e)

\* Mutant of Unpack: extra tokens are ignored.
UnpackFirstTwo(line) == Len(line) >= 2

\* file1, file2 = (m.strip() for m in line.split())
Unpack(line) == Len(line) = 2

\* The exception open(name, "r") raises, "none" when it succeeds.
OpenError(name) ==
    CASE FileSystem[name].kind = "missing" -> "FileNotFoundError"
      [] FileSystem[name].kind = "dir"     -> "IsADirectoryError"
      [] OTHER                             -> "none"

\* Mutant of WithExit: the handle is closed on the normal path only.
WithExitLeak(open, h, e) == IF e = "none" THEN open \ {h} ELSE open

\* Leaving a `with open(...) as file:` block, normally or by exception e:
\* the handle h is closed.
WithExit(open, h, e) == open \ {h}

\* round(1 - d / m, 3) in thousandths, for m > 0.
Similarity(d, m) == RoundHalfEven(1000 * (m - d), m)

\* Mutant of AppendResult: the result goes to the front of the list.
PrependResult(res, d) == <<d>> \o res

\* results.append(distance)
AppendResult(res, d) == Append(res, d)

\* Mutant of ForLoop: the output is written inside the loop.
ForLoopWritesEarly(i, n) == "write"

\* The for loop over n lines after line i: the next line, or past the loop.
ForLoop(i, n) == IF i < n THEN "split" ELSE "write"

\* str() of a score: sign, integer part, ".", fraction without trailing
\* zeros (at least one digit).
FractionDigits(fr) ==
    IF fr % 100 = 0 THEN <<DigitChars[(fr \div 100) + 1]>>
    ELSE IF fr % 10 = 0
    THEN <<DigitChars[(fr \div 100) + 1], DigitChars[((fr \div 10) % 10) + 1]>>
    ELSE <<DigitChars[(fr \div 100) + 1], DigitChars[((fr \div 10) % 10) + 1],
           DigitChars[(fr % 10) + 1]>>

FloatStr(v) ==
    LET a == IF v < 0 THEN -v ELSE v IN
    (IF v < 0 THEN <<"-">> ELSE <<>>)
    \o DigitsOf(a \div 1000) \o <<".">> \o FractionDigits(a % 1000)

FileOf(k) == IF k = 1 THEN file1 ELSE file2
TextOf(k) == IF k = 1 THEN text1 ELSE text2
Handle(k) == <<k, FileOf(k)>>
At(stage, k) == IF k = 1 THEN stage \o "1" ELSE stage \o "2"

MainInit ==
    /\ pc = "start"
    /\ lines = <<>>
    /\ idx = 0
    /\ results = <<>>
    /\ file1 = ""
    /\ file2 = ""
    /\ text1 = <<>>
    /\ text2 = <<>>
    /\ openFiles = {}
    /\ exc = "none"
    /\ distance = 0
    /\ outOpens = 0
    /\ output = <<>>
    /\ openedFor = {}

MainIdle ==
    /\ pc = "idle"
    /\ lines = <<>>
    /\ idx = 0
    /\ results = <<>>
    /\ file1 = ""
    /\ file2 = ""
    /\ text1 = <<>>
    /\ text2 = <<>>
    /\ openFiles = {}
    /\ exc = "none"
    /\ distance = 0
    /\ outOpens = 0
    /\ output = <<>>
    /\ openedFor = {}

\* Opening and reading the input file; an OSError here ends the run.
ReadInput ==
    /\ UNCHANGED <<levVars, prepVars>>
    /\ pc = "start"
    /\ \/ /\ exc' = "OSError"
          /\ pc' = "aborted"
          /\ UNCHANGED <<lines, idx>>
       \/ /\ lines' \in Batches
          /\ idx' = IF lines' = <<>> THEN 0 ELSE 1
          /\ pc' = ForLoop(0, Len(lines'))
          /\ UNCHANGED exc
    /\ UNCHANGED <<results, file1, file2, text1, text2, openFiles, distance,
                   outOpens, output, openedFor>>

\* The head of the try block: the line is split and unpacked.
SplitLine ==
    /\ UNCHANGED <<levVars, prepVars>>
    /\ pc = "split"
    /\ IF Unpack(lines[idx])
       THEN /\ file1' = lines[idx][1]
            /\ file2' = lines[idx][2]
            /\ pc' = "open1"
            /\ UNCHANGED exc
       ELSE /\ exc' = "ValueError"
            /\ pc' = "handle"
            /\ UNCHANGED <<file1, file2>>
    /\ UNCHANGED <<lines, idx, results, text1, text2, openFiles, distance,
                   outOpens, output, openedFor>>

\* open(file_k, "r", encoding="utf-8")
OpenPair(k) ==
    /\ UNCHANGED <<levVars, prepVars>>
    /\ pc = At("open", k)
    /\ openedFor' = openedFor \cup {idx}
    /\ IF OpenError(FileOf(k)) = "none"
       THEN /\ openFiles' = openFiles \cup {Handle(k)}
            /\ pc' = At("read", k)
            /\ UNCHANGED exc
       ELSE /\ exc' = OpenError(FileOf(k))
            /\ pc' = "handle"
            /\ UNCHANGED openFiles
    /\ UNCHANGED <<lines, idx, results, file1, file2, text1, text2, distance,
                   outOpens, output>>

\* text_k = file.read()
ReadPair(k) ==
    /\ UNCHANGED <<levVars, prepVars>>
    /\ pc = At("read", k)
    /\ IF FileSystem[FileOf(k)].kind = "binary"
       THEN /\ exc' = "UnicodeDecodeError"
            /\ pc' = At("exit", k)
            /\ UNCHANGED <<text1, text2>>
       ELSE /\ text1' = IF k = 1 THEN FileSystem[file1].content ELSE text1
            /\ text2' = IF k = 2 THEN FileSystem[file2].content ELSE text2
            /\ pc' = At("prep", k)
            /\ UNCHANGED exc
    /\ UNCHANGED <<lines, idx, results, file1, file2, openFiles, distance,
                   outOpens, output, openedFor>>

\* text_k = prepare_text(text_k), still inside the with block
PreparePair(k) ==
    /\ UNCHANGED <<levVars, prepVars>>
    /\ pc = At("prep", k)
    /\ LET r == prepare_text(TextOf(k)) IN
       IF r.ok
       THEN /\ text1' = IF k = 1 THEN r.text ELSE text1
            /\ text2' = IF k = 2 THEN r.text ELSE text2
            /\ UNCHANGED exc
       ELSE /\ exc' = "SyntaxError"
            /\ UNCHANGED <<text1, text2>>
    /\ pc' = At("exit", k)
    /\ UNCHANGED <<lines, idx, results, file1, file2, openFiles, distance,
                   outOpens, output, openedFor>>

\* The end of the with block of file k.
ExitWith(k) ==
    /\ UNCHANGED <<levVars, prepVars>>
    /\ pc = At("exit", k)
    /\ openFiles' = WithExit(openFiles, Handle(k), exc)
    /\ pc' = IF exc # "none" THEN "handle"
             ELSE IF k = 1 THEN "open2" ELSE "dist"
    /\ UNCHANGED <<lines, idx, results, file1, file2, text1, text2, exc, distance,
                   outOpens, output, openedFor>>

\* The last two lines of compare(): the division and the rounding.
Distance ==
    /\ UNCHANGED <<levVars, prepVars>>
    /\ pc = "dist"
    /\ LET m == Max(Len(text1), Len(text2)) IN
       IF m = 0
       THEN /\ exc' = "ZeroDivisionError"
            /\ pc' = "handle"
            /\ UNCHANGED distance
       ELSE /\ distance' = Similarity(levenshtein_distance(text1, text2), m)
            /\ pc' = "record"
            /\ UNCHANGED exc
    /\ UNCHANGED <<lines, idx, results, file1, file2, text1, text2, openFiles,
                   outOpens, output, openedFor>>

\* The except clauses of main(); any other exception leaves main().
HandleException ==
    /\ UNCHANGED <<levVars, prepVars>>
    /\ pc = "handle"
    /\ IF Handled(exc)
       THEN /\ distance' = Sentinel
            /\ exc' = "none"
            /\ pc' = "record"
       ELSE /\ pc' = "aborted"
            /\ UNCHANGED <<distance, exc>>
    /\ UNCHANGED <<lines, idx, results, file1, file2, text1, text2, openFiles,
                   outOpens, output, openedFor>>

\* results.append(distance) and the step of the for loop.
Record ==
    /\ UNCHANGED <<levVars, prepVars>>
    /\ pc = "record"
    /\ results' = AppendResult(results, distance)
    /\ pc' = ForLoop(idx, Len(lines))
    /\ idx' = IF pc' = "split" THEN idx + 1 ELSE idx
    /\ UNCHANGED <<lines, file1, file2, text1, text2, openFiles, exc, distance,
                   outOpens, output, openedFor>>

\* Opening the output file and writing "\n".join(map(str, results)).
WriteOutput ==
    /\ UNCHANGED <<levVars, prepVars>>
    /\ pc = "write"
    /\ \/ /\ exc' = "OSError"
          /\ pc' = "aborted"
          /\ UNCHANGED <<outOpens, output>>
       \/ /\ outOpens' = outOpens + 1
          /\ output' = [k \in 1..Len(results) |-> FloatStr(results[k])]
          /\ pc' = "done"
          /\ UNCHANGED exc
    /\ UNCHANGED <<lines, idx, results, file1, file2, text1, text2, openFiles,
                   distance, openedFor>>

MainNext ==
    \/ ReadInput
    \/ SplitLine
    \/ \E k \in {1, 2} : OpenPair(k)
    \/ \E k \in {1, 2} : ReadPair(k)
    \/ \E k \in {1, 2} : PreparePair(k)
    \/ \E k \in {1, 2} : ExitWith(k)
    \/ Distance
    \/ HandleException
    \/ Record
    \/ WriteOutput

-----------------------------------------------------------------------------
(* Specifications *)

\* A run of main().
Init == MainInit /\ LevIdle /\ PrepIdle
Next == MainNext
Spec == Init /\ [][Next]_vars

\* One call of levenshtein_distance on bounded strings.
InitLev == LevInit /\ MainIdle /\ PrepIdle
NextLev == LevNext
SpecLev == InitLev /\ [][NextLev]_vars

\* prepare_text on bounded texts.
InitPrep == PrepInit /\ MainIdle /\ LevIdle
NextPrep == PrepNext
SpecPrep == InitPrep /\ [][NextPrep]_vars

-----------------------------------------------------------------------------
(* Properties of main() and compare(), checked under Spec *)

\* What an input line is worth: the similarity of its two files when both
\* are readable texts that normalise and are not both empty, else -1.0.
ExpectedScore(line) ==
    IF /\ Len(line) = 2
       /\ FileSystem[line[1]].kind = "text"
       /\ FileSystem[line[2]].kind = "text"
       /\ prepare_text(FileSystem[line[1]].content).ok
       /\ prepare_text(FileSystem[line[2]].content).ok
    THEN LET t1 == prepare_text(FileSystem[line[1]].content).text
             t2 == prepare_text(FileSystem[line[2]].content).text
             m == Max(Len(t1), Len(t2))
         IN IF m > 0 THEN Similarity(levenshtein_distance(t1, t2), m) ELSE Sentinel
    ELSE Sentinel

C2_PairFailureNeverAborts ==
    pc = "aborted" => exc \notin {"SyntaxError", "ZeroDivisionError"}

\* C3: a line that does not split into exactly two tokens gets the sentinel,
\* no pair file is opened for it, and main() does not stop at it.
C3_MalformedLineSentinel ==
    \A k \in 1..Len(lines) :
        Len(lines[k]) # 2 =>
            /\ k \notin openedFor
            /\ k <= Len(results) => results[k] = Sentinel
            /\ (k = idx /\ pc = "aborted") => Len(results) = Len(lines)

\* C3 witness: the first line was malformed and recorded, and main() is
\* opening the files of the second line.
C3_Witness ==
    /\ Len(lines) = 2
    /\ Len(lines[1]) = 3
    /\ results = <<Sentinel>>
    /\ idx = 2
    /\ pc = "open1"

\* C4 (as claimed): a pair file that cannot be opened, for whatever reason,
\* never makes main() stop.
C4_OpenFailureNeverAborts ==
    pc = "aborted" => exc \notin {OpenError(f) : f \in FileNames}

\* C8 (as claimed): when normalisation of a pair file's content begins, the
\* file has been closed.
C8_ClosedBeforeNormalization ==
    pc \in {"prep1", "prep2"} => openFiles = {}

\* C8 (amended): a pair file is opened and fully read before its content is
\* normalised and stays open until its with block is left; it is the only
\* pair file open then, and outside the with blocks (when the next line
\* starts, when an exception reaches main()) no pair file is open.
C8_HandleScopedToWithBlock ==
    /\ \A k \in {1, 2} :
        pc \in {At("read", k), At("prep", k), At("exit", k)} =>
            openFiles = {Handle(k)}
    /\ \A k \in {1, 2} :
        pc = At("prep", k) => TextOf(k) = FileSystem[FileOf(k)].content
    /\ pc \notin {"read1", "prep1", "exit1", "read2", "prep2", "exit2"} =>
            openFiles = {}

\* C8 witness: on the second line, normalisation of file2 has failed and
\* its handle is still open, the with block not yet left.
C8_Witness ==
    /\ idx = 2
    /\ pc = "exit2"
    /\ exc = "SyntaxError"
    /\ openFiles = {Handle(2)}

\* C9: the output file is opened at most once, only past the loop, and is
\* untouched while a line is unprocessed or the run has stopped early.
C9_OutputWrittenOnceAtEnd ==
    /\ outOpens <= 1
    /\ pc = "done" => outOpens = 1
    /\ pc # "done" => outOpens = 0 /\ output = <<>>
    /\ Len(results) < Len(lines) => outOpens = 0 /\ output = <<>>

\* C9 witness: a two-line batch written out.
C9_Witness ==
    /\ pc = "done"
    /\ Len(lines) = 2
    /\ Len(output) = 2
    /\ outOpens = 1

-----------------------------------------------------------------------------
(* Properties of levenshtein_distance and the Spinner, checked under SpecLev *)

\* The full-table recurrence: the edit distance between the first i
\* characters of a and the first j characters of b.
RECURSIVE EditDistance(_, _, _, _)
EditDistance(a, b, i, j) ==
    IF i = 0 THEN j
    ELSE IF j = 0 THEN i
    ELSE Min3(EditDistance(a, b, i - 1, j) + 1,
              EditDistance(a, b, i, j - 1) + 1,
              EditDistance(a, b, i - 1, j - 1) + (IF a[i] = b[j] THEN 0 ELSE 1))

\* C5: levenshtein_distance returns the edit distance of the reference
\* recurrence, whichever argument is the longer.
C5_ReturnsEditDistance ==
    lpc = "done" =>
        /\ result = EditDistance(la, lb, Len(la), Len(lb))
        /\ levenshtein_distance(la, lb) = result

\* C5 witness: distance("kitten", "sitting") = 3.
C5_Witness ==
    /\ lpc = "done"
    /\ la = Kitten
    /\ lb = Sitting
    /\ result = 3

\* C6: the distance lies between 0 and the longer length, so the similarity
\* compare() derives from it lies in [0, 1] and is never the sentinel.
C6_DistanceAndSimilarityRange ==
    lpc = "done" =>
        LET m == Max(Len(la), Len(lb)) IN
        /\ 0 <= result
        /\ result <= m
        /\ m > 0 => /\ Similarity(result, m) \in 0..1000
                    /\ Similarity(result, m) # Sentinel

\* C6 witness: two strings with nothing in common, similarity 0.
C6_Witness ==
    /\ lpc = "done"
    /\ Len(la) = 3
    /\ result = Max(Len(la), Len(lb))
    /\ Similarity(result, Max(Len(la), Len(lb))) = 0

\* The strings a redraw can write: a glyph, a space, a percentage of at
\* most 100, a percent sign.
SpinnerStrings ==
    {<<Glyphs[g], SP>> \o DigitsOf(p) \o <<"%">> : g \in 1..4, p \in 0..100}

\* C10: the Spinner is built for N = len(longer string), ticked once per
\* outer iteration and finished once after the last tick; the counter never
\* exceeds N, no percentage exceeds 100, tick() is never reached with N = 0,
\* and every redraw and finish() backspaces exactly the length of the most
\* recent redraw (zero when there was none).
C10_SpinnerProtocol ==
    /\ lpc # "error"
    /\ lpc \in {"loop", "done"} =>
        /\ spinner.overall_count = Max(Len(la), Len(lb))
        /\ spinner.counter = i2
        /\ spinner.counter <= spinner.overall_count
    /\ lpc = "loop" => Len(stdout) % 2 = 0
    /\ lpc = "done" => /\ Len(stdout) % 2 = 1
                       /\ spinner.counter = spinner.overall_count
    /\ \A k \in 1..Len(stdout) :
        IF k % 2 = 1
        THEN stdout[k] = Backspaces(IF k = 1 THEN 0 ELSE Len(stdout[k - 1]))
        ELSE stdout[k] \in SpinnerStrings

\* C10 witness: three redraws, the last one "100%" wide, erased by finish().
C10_Witness ==
    /\ lpc = "done"
    /\ Len(stdout) = 7
    /\ stdout[4] = <<"/", SP, "6", "7", "%">>
    /\ stdout[6] = <<"-", SP, "1", "0", "0", "%">>
    /\ stdout[7] = Backspaces(6)

-----------------------------------------------------------------------------
(* Property of prepare_text, checked under SpecPrep *)

\* C7 (as claimed): prepare_text applied to its own output accepts it and
\* returns it unchanged.
C7_NormalizationIdempotent ==
    ppc = "twice" => psecond = pfirst

====
